---- MODULE Spec2Model ----
(***************************************************************************)
(* The three-step product-tracking wizard (form -> destination -> summary) *)
(* of src/unnamed/part_000, its record persisted in localStorage, and the  *)
(* payload check of the /save endpoint of src/server.cjs.                  *)
(*                                                                         *)
(* The specifications of the wizard keep the localStorage item as the      *)
(* value its JSON text parses to; StoreSpec keeps the text beside it and   *)
(* follows JSON.stringify and JSON.parse character by character.           *)
(*                                                                         *)
(* JavaScript strings are sequences of one-character strings; a JavaScript *)
(* object is a function from the keys it owns to strings.  One browser tab *)
(* runs the wizard: a navigation replaces the document, which drops the    *)
(* closures, the timers and the pending fetch continuations of the page    *)
(* that is left.                                                           *)
(***************************************************************************)
EXTENDS Integers, Sequences, FiniteSets, TLC

VARIABLES
    store,          \* localStorage item "productTrackingForm"
    page,           \* document in the tab: "form", "destination", "summary"
    phase,          \* "loading": initializer not run yet; "ready": it ran and wired the page
    stored,         \* the initializer's const stored (value of getStoredData at load)
    chipSel,        \* data-chip-type of the button with aria-pressed="true", "" if none
    checked,        \* destination checkboxes that are checked
    message,        \* textContent of the page's message element
    focus,          \* control focused by the last handler
    disabled,       \* saveButton.disabled
    pending,        \* click handlers of this page suspended at await fetch(...)
    redirectTimer,  \* let redirectTimer: TRUE when it holds a timer id
    timers,         \* timeouts of this page that are armed and not yet run
    alert,          \* text of the last window.alert of this page
    navBy,          \* history: what requested the load of a document still loading
    accepted,       \* history: successful saves handled since the store was last cleared
    itemText,       \* the characters of the localStorage item (followed in StoreSpec)
    ledger,         \* the server's workbook file data/Consumption.xlsx
    requests,       \* POST /save bodies the server has received and not answered
    replies,        \* history: status codes of the server's answers, in order
    controls        \* the values in the controls of step 1 (followed in OrderSpec)

vars == <<store, page, phase, stored, chipSel, checked, message, focus,
          disabled, pending, redirectTimer, timers, alert, navBy, accepted,
          itemText, ledger, requests, replies, controls>>

\* the server's side
server == <<ledger, requests, replies>>

\* the browser's side
browser == <<store, page, phase, stored, chipSel, checked, message, focus,
             disabled, pending, redirectTimer, timers, alert, navBy, accepted,
             itemText, controls>>

\* what the handlers of the pages leave alone in the specifications of the
\* wizard, where the item is kept as the value its text parses to
elsewhere == <<itemText, ledger, requests, replies, controls>>

-----------------------------------------------------------------------------
(* Bounds of the model *)

MaxPending == 2     \* click handlers that may be suspended at once
MaxAccepted == 2    \* the history counter saturates here
MaxRequests == 3    \* requests the server receives in a run

-----------------------------------------------------------------------------
(* Characters and strings *)

DigitChars == <<"0", "1", "2", "3", "4", "5", "6", "7", "8", "9">>

Digits == {DigitChars[i] : i \in 1..10}

Letters ==
    {"a", "b", "c", "d", "e", "f", "g", "h", "i", "j", "k", "l", "m",
     "n", "o", "p", "q", "r", "s", "t", "u", "v", "w", "x", "y", "z",
     "A", "B", "C", "D", "E", "F", "G", "H", "I", "J", "K", "L", "M",
     "N", "O", "P", "Q", "R", "S", "T", "U", "V", "W", "X", "Y", "Z"}

WhiteSpace == {" ", "\t", "\n"}

EmptyString == <<>>

RECURSIVE TrimStart(_)
TrimStart(s) ==
    IF s # <<>> /\ Head(s) \in WhiteSpace THEN TrimStart(Tail(s)) ELSE s

RECURSIVE TrimEnd(_)
TrimEnd(s) ==
    IF s # <<>> /\ s[Len(s)] \in WhiteSpace
    THEN TrimEnd(SubSeq(s, 1, Len(s) - 1))
    ELSE s

Trim(s) == TrimEnd(TrimStart(s))

\* value ? value.trim() : ""
normalizeText(value) == IF value = EmptyString THEN EmptyString ELSE Trim(value)

\* the test without its anchors: /[a-z0-9]+/i.test(s)
HasAlphanumeric(s) == \E i \in 1..Len(s) : s[i] \in Letters \cup Digits

\* /^[a-z0-9]+$/i.test(s)
IsAlphanumeric(s) == s # <<>> /\ \A i \in 1..Len(s) : s[i] \in Letters \cup Digits

\* the test anchored at the start: /^\d/.test(s)
StartsWithDigit(s) == s # <<>> /\ s[1] \in Digits

\* /\d/.test(s)
HasDigit(s) == \E i \in 1..Len(s) : s[i] \in Digits

\* s.split(/\s+/).filter(Boolean).length
RECURSIVE CountParts(_, _)
CountParts(s, inPart) ==
    IF s = <<>> THEN 0
    ELSE IF Head(s) \in WhiteSpace THEN CountParts(Tail(s), FALSE)
    ELSE (IF inPart THEN 0 ELSE 1) + CountParts(Tail(s), TRUE)

\* a count that is one too high
operatorPartsOneMore(operatorName) == CountParts(operatorName, FALSE) + 1

operatorParts(operatorName) == CountParts(operatorName, FALSE)

-----------------------------------------------------------------------------
(* Number.parseFloat and the tests made on its result.  A number is        *)
(* (-1)^neg * mant * 10^exp10, NaN or an infinity.                         *)

NaN == [nan |-> TRUE, inf |-> FALSE, neg |-> FALSE, mant |-> 0, exp10 |-> 0]

RECURSIVE ScanDigits(_, _)
\* index of the first character at or after i that is not a decimal digit
ScanDigits(s, i) ==
    IF i <= Len(s) /\ s[i] \in Digits THEN ScanDigits(s, i + 1) ELSE i

DigitValue(c) == CHOOSE n \in 0..9 : DigitChars[n + 1] = c

RECURSIVE DigitsValue(_, _, _)
\* value of the decimal digits s[i], ..., s[j-1]
DigitsValue(s, i, j) ==
    IF j <= i THEN 0 ELSE 10 * DigitsValue(s, i, j - 1) + DigitValue(s[j - 1])

InfinityWord == <<"I", "n", "f", "i", "n", "i", "t", "y">>

\* Number.parseFloat(s): the longest prefix of the string, after leading white
\* space, that is a decimal literal
parseFloat(s) ==
    LET t == TrimStart(s)
        signed == t # <<>> /\ t[1] \in {"+", "-"}
        neg == signed /\ t[1] = "-"
        i0 == IF signed THEN 2 ELSE 1
        i1 == ScanDigits(t, i0)
        hasDot == i1 <= Len(t) /\ t[i1] = "."
        i2 == IF hasDot THEN ScanDigits(t, i1 + 1) ELSE i1
        nInt == i1 - i0
        nFrac == IF hasDot THEN i2 - (i1 + 1) ELSE 0
        mant == DigitsValue(t, i0, i1) * (IF nFrac = 0 THEN 1 ELSE 10 ^ nFrac)
                + (IF nFrac = 0 THEN 0 ELSE DigitsValue(t, i1 + 1, i2))
        hasE == i2 <= Len(t) /\ t[i2] \in {"e", "E"}
        eSigned == hasE /\ i2 + 1 <= Len(t) /\ t[i2 + 1] \in {"+", "-"}
        e0 == IF eSigned THEN i2 + 2 ELSE i2 + 1
        e1 == IF hasE THEN ScanDigits(t, e0) ELSE e0
        hasExp == hasE /\ e1 > e0
        expo == IF ~hasExp THEN 0
                ELSE IF eSigned /\ t[i2 + 1] = "-" THEN 0 - DigitsValue(t, e0, e1)
                ELSE DigitsValue(t, e0, e1)
    IN  IF Len(t) >= i0 + 7 /\ SubSeq(t, i0, i0 + 7) = InfinityWord
        THEN [nan |-> FALSE, inf |-> TRUE, neg |-> neg, mant |-> 0, exp10 |-> 0]
        ELSE IF nInt + nFrac = 0 THEN NaN
        ELSE [nan |-> FALSE, inf |-> FALSE, neg |-> neg, mant |-> mant,
              exp10 |-> expo - nFrac]

RECURSIVE NumDigits(_)
NumDigits(n) == IF n < 10 THEN 1 ELSE 1 + NumDigits(n \div 10)

\* the first four significant digits of n > 0
Leading4(n) ==
    IF NumDigits(n) <= 4 THEN n * 10 ^ (4 - NumDigits(n))
    ELSE n \div 10 ^ (NumDigits(n) - 4)

\* Binary64 range: above 1.797...e308 a literal reads as Infinity, below
\* 2.47...e-324 as 0 (decided on four significant digits)
Overflows(v) ==
    /\ ~v.nan /\ ~v.inf /\ v.mant > 0
    /\ LET order == NumDigits(v.mant) + v.exp10
       IN  order > 309 \/ (order = 309 /\ Leading4(v.mant) > 1797)

Underflows(v) ==
    /\ ~v.nan /\ ~v.inf /\ v.mant > 0
    /\ LET order == NumDigits(v.mant) + v.exp10
       IN  order < -323 \/ (order = -323 /\ Leading4(v.mant) <= 2470)

\* Number.isFinite(v)
NumberIsFinite(v) == ~v.nan /\ ~v.inf /\ ~Overflows(v)

\* v <= 0 (false for NaN)
IsNonPositive(v) ==
    /\ ~v.nan
    /\ \/ v.neg
       \/ (~v.inf /\ (v.mant = 0 \/ Underflows(v)))

-----------------------------------------------------------------------------
(* localStorage and JavaScript values *)

EmptyObject == [k \in {} |-> EmptyString]

\* A JavaScript value: an object with its own keys, or a primitive or array
JsObject(obj) == [kind |-> "object", obj |-> obj]

JsOther(kind) == [kind |-> kind, obj |-> EmptyObject]

\* the own keys of a string or an array: "0", "1", ...
IndexKey(n) == DigitChars[n + 1]

IndexOf(key) == CHOOSE n \in 0..9 : IndexKey(n) = key

\* the elements elems under their index keys
Indexed(elems) ==
    [k \in {IndexKey(n) : n \in 0..(Len(elems) - 1)} |-> elems[IndexOf(k) + 1]]

\* the elements back in order
Elements(obj) == [n \in 1..Cardinality(DOMAIN obj) |-> obj[IndexKey(n - 1)]]

\* a non-empty string: its own keys are the indices of its characters
JsString(chars) ==
    [kind |-> "string", obj |-> Indexed([n \in 1..Len(chars) |-> <<chars[n]>>])]

\* an array of strings
JsArray(elems) == [kind |-> "array", obj |-> Indexed(elems)]

\* a finite number other than 0; it owns no key, and the text that
\* Number.prototype.toString gives for it is kept aside
JsNumber(digits) == [kind |-> "number", obj |-> [digits |-> digits]]

\* The localStorage item: absent, text that is not JSON, or the JSON text of
\* a value (kept as the value it parses to)
Absent == JsOther("absent")

Malformed == JsOther("malformed")

\* JSON texts null, false, 0 and "" parse to a falsy value
FalsyKinds == {"null", "false", "zero", "emptystring"}

\* JSON texts of a non-zero number, of a number too large for a double
\* (read as Infinity), true, a non-empty string, an array
TruthyKinds == {"number", "infinity", "true", "string", "array"}

\* const STORAGE_KEY item read back: JSON.parse(localStorage.getItem(..)) || {}
\* inside try, {} from catch
getStoredData(item) ==
    IF item.kind \in {"absent", "malformed"} \cup FalsyKinds
    THEN JsObject(EmptyObject)
    ELSE item

\* localStorage.setItem(STORAGE_KEY, JSON.stringify(data)) for an object of
\* string values
setStoredData(data) == JsObject(data)

\* localStorage.removeItem(STORAGE_KEY)
clearStoredData == Absent

\* !!value.key
Truthy(value, key) ==
    value.kind = "object" /\ key \in DOMAIN value.obj /\ value.obj[key] # EmptyString

\* { ...value }: an object's own keys; the index keys of a string or an
\* array; nothing of a number or a boolean
Spread(value) ==
    IF value.kind \in {"object", "string", "array"} THEN value.obj
    ELSE EmptyObject

\* { ...base, ...more }
Merge(base, more) ==
    [k \in DOMAIN base \cup DOMAIN more |->
        IF k \in DOMAIN more THEN more[k] ELSE base[k]]

-----------------------------------------------------------------------------
(* JSON text: JSON.stringify and JSON.parse over the values the item can   *)
(* hold here: null, booleans, numbers, strings, arrays of strings and      *)
(* objects of strings                                                      *)

\* the own keys in the order JSON.stringify writes them: index keys first,
\* then the others as they were inserted (taken as the order of the submit
\* handler's literal)
KeyOrder == <<"0", "1", "2", "chipType", "chipBoxNumber", "chipBulkSilo", "chipPurchased", "boxNumber", "product", "netWeight", "operatorName", "destination", "savedAt">>

\* a key spelled out
KeyText(key) ==
    CASE key = "0" -> <<"0">>
      [] key = "1" -> <<"1">>
      [] key = "2" -> <<"2">>
      [] key = "chipType" -> <<"c", "h", "i", "p", "T", "y", "p", "e">>
      [] key = "chipBoxNumber" -> <<"c", "h", "i", "p", "B", "o", "x", "N", "u", "m", "b", "e", "r">>
      [] key = "chipBulkSilo" -> <<"c", "h", "i", "p", "B", "u", "l", "k", "S", "i", "l", "o">>
      [] key = "chipPurchased" -> <<"c", "h", "i", "p", "P", "u", "r", "c", "h", "a", "s", "e", "d">>
      [] key = "boxNumber" -> <<"b", "o", "x", "N", "u", "m", "b", "e", "r">>
      [] key = "product" -> <<"p", "r", "o", "d", "u", "c", "t">>
      [] key = "netWeight" -> <<"n", "e", "t", "W", "e", "i", "g", "h", "t">>
      [] key = "operatorName" -> <<"o", "p", "e", "r", "a", "t", "o", "r", "N", "a", "m", "e">>
      [] key = "destination" -> <<"d", "e", "s", "t", "i", "n", "a", "t", "i", "o", "n">>
      [] key = "savedAt" -> <<"s", "a", "v", "e", "d", "A", "t">>

KeyNamed(chars) == CHOOSE i \in 1..Len(KeyOrder) : KeyText(KeyOrder[i]) = chars

Quote == "\""

Backslash == "\\"

\* characters JSON.stringify writes as an escape, with the escape's letter
Escaped == {Quote, Backslash, "\n", "\t"}

EscapeLetter(c) ==
    CASE c = Quote -> Quote
      [] c = Backslash -> Backslash
      [] c = "\n" -> "n"
      [] c = "\t" -> "t"

\* the character an escape letter stands for; \/ is read as /
EscapeLetters == {Quote, Backslash, "/", "n", "t"}

Unescape(c) ==
    CASE c = Quote -> Quote
      [] c = Backslash -> Backslash
      [] c = "/" -> "/"
      [] c = "n" -> "\n"
      [] c = "t" -> "\t"

RECURSIVE EscapeChars(_)
EscapeChars(chars) ==
    IF chars = <<>> THEN <<>>
    ELSE (IF Head(chars) \in Escaped
          THEN <<Backslash, EscapeLetter(Head(chars))>>
          ELSE <<Head(chars)>>) \o EscapeChars(Tail(chars))

\* the string literal of chars
QuoteString(chars) == <<Quote>> \o EscapeChars(chars) \o <<Quote>>

RECURSIVE JoinTexts(_)
\* texts joined by commas
JoinTexts(texts) ==
    IF texts = <<>> THEN <<>>
    ELSE IF Len(texts) = 1 THEN texts[1]
    ELSE texts[1] \o <<",">> \o JoinTexts(Tail(texts))

\* the keys of obj in the order of KeyOrder
OwnKeys(obj) == SelectSeq(KeyOrder, LAMBDA k : k \in DOMAIN obj)

\* JSON.stringify(value)
JSONstringify(value) ==
    CASE value.kind = "object" ->
            LET keys == OwnKeys(value.obj)
            IN  <<"{">> \o JoinTexts([n \in 1..Len(keys) |->
                            QuoteString(KeyText(keys[n])) \o <<":">>
                            \o QuoteString(value.obj[keys[n]])]) \o <<"}">>
      [] value.kind = "array" ->
            LET elems == Elements(value.obj)
            IN  <<"[">> \o JoinTexts([n \in 1..Len(elems) |->
                            QuoteString(elems[n])]) \o <<"]">>
      [] value.kind = "string" ->
            LET elems == Elements(value.obj)
            IN  QuoteString([n \in 1..Len(elems) |-> elems[n][1]])
      [] value.kind = "emptystring" -> <<Quote, Quote>>
      [] value.kind = "number" -> value.obj["digits"]
      [] value.kind = "zero" -> <<"0">>
      [] value.kind = "infinity" -> <<"n", "u", "l", "l">>
      [] value.kind = "true" -> <<"t", "r", "u", "e">>
      [] value.kind = "false" -> <<"f", "a", "l", "s", "e">>
      [] value.kind = "null" -> <<"n", "u", "l", "l">>

\* the item as localStorage holds it: nothing, or text
NoItem == [present |-> FALSE, chars |-> <<>>]

ItemOf(chars) == [present |-> TRUE, chars |-> chars]

RECURSIVE SkipWhiteSpace(_, _)
\* index of the first character at or after i that is no JSON white space
SkipWhiteSpace(t, i) ==
    IF i <= Len(t) /\ t[i] \in {" ", "\t", "\n", "\r"}
    THEN SkipWhiteSpace(t, i + 1)
    ELSE i

\* a parse that failed, and one that gave val and stopped before next
ParseFails == [ok |-> FALSE, next |-> 0]

Parsed(val, next) == [ok |-> TRUE, val |-> val, next |-> next]

RECURSIVE ScanString(_, _, _)
\* the characters of a string literal from i, after its opening quote
ScanString(t, i, acc) ==
    IF i > Len(t) THEN ParseFails
    ELSE IF t[i] = Quote THEN Parsed(acc, i + 1)
    ELSE IF t[i] = Backslash
    THEN IF i < Len(t) /\ t[i + 1] \in EscapeLetters
         THEN ScanString(t, i + 2, Append(acc, Unescape(t[i + 1])))
         ELSE ParseFails
    ELSE IF t[i] \in {"\n", "\t", "\r"} THEN ParseFails
    ELSE ScanString(t, i + 1, Append(acc, t[i]))

ParseString(t, i) ==
    IF i <= Len(t) /\ t[i] = Quote THEN ScanString(t, i + 1, <<>>) ELSE ParseFails

RECURSIVE ParseMembers(_, _, _)
\* the members of an object from i: "key" : "value" , ... }
ParseMembers(t, i, acc) ==
    LET k == ParseString(t, i)
        colon == SkipWhiteSpace(t, k.next)
        v == ParseString(t, SkipWhiteSpace(t, colon + 1))
        end == SkipWhiteSpace(t, v.next)
        obj == Merge(acc, [x \in {KeyOrder[KeyNamed(k.val)]} |-> v.val])
    IN  IF ~k.ok \/ colon > Len(t) THEN ParseFails
        ELSE IF t[colon] # ":" \/ ~v.ok \/ end > Len(t) THEN ParseFails
        ELSE IF t[end] = "}" THEN Parsed(obj, end + 1)
        ELSE IF t[end] = "," THEN ParseMembers(t, SkipWhiteSpace(t, end + 1), obj)
        ELSE ParseFails

RECURSIVE ParseElements(_, _, _)
\* the elements of an array from i: "value" , ... ]
ParseElements(t, i, acc) ==
    LET v == ParseString(t, i)
        end == SkipWhiteSpace(t, v.next)
    IN  IF ~v.ok \/ end > Len(t) THEN ParseFails
        ELSE IF t[end] = "]" THEN Parsed(Append(acc, v.val), end + 1)
        ELSE IF t[end] = ","
        THEN ParseElements(t, SkipWhiteSpace(t, end + 1), Append(acc, v.val))
        ELSE ParseFails

RECURSIVE ToDigits(_)
\* the decimal digits of n
ToDigits(n) ==
    IF n < 10 THEN <<DigitChars[n + 1]>>
    ELSE ToDigits(n \div 10) \o <<DigitChars[(n % 10) + 1]>>

Zeros(n) == [i \in 1..n |-> "0"]

RECURSIVE StripZeros(_, _)
\* mant * 10^exp10 with no zero at the end of mant
StripZeros(mant, exp10) ==
    IF mant > 0 /\ mant % 10 = 0 THEN StripZeros(mant \div 10, exp10 + 1)
    ELSE [mant |-> mant, exp10 |-> exp10]

\* Number.prototype.toString of a finite number other than 0
NumberToString(v) ==
    LET w == StripZeros(v.mant, v.exp10)
        d == ToDigits(w.mant)
        k == Len(d)
        n == k + w.exp10
        body ==
            IF k <= n /\ n <= 21 THEN d \o Zeros(n - k)
            ELSE IF 0 < n /\ n <= 21
            THEN SubSeq(d, 1, n) \o <<".">> \o SubSeq(d, n + 1, k)
            ELSE IF -6 < n /\ n <= 0 THEN <<"0", ".">> \o Zeros(0 - n) \o d
            ELSE (IF k = 1 THEN d ELSE <<d[1], ".">> \o SubSeq(d, 2, k))
                 \o (IF n - 1 >= 0 THEN <<"e", "+">> \o ToDigits(n - 1)
                     ELSE <<"e", "-">> \o ToDigits(1 - n))
    IN  (IF v.neg THEN <<"-">> ELSE <<>>) \o body

\* where the number that starts at i ends: -? (0 | digits without a leading
\* 0) (. digits)? ([eE] [+-]? digits)?; 0 when there is no number at i
NumberEnd(t, i) ==
    LET first == IF t[i] = "-" THEN i + 1 ELSE i
        i1 == ScanDigits(t, first)
        hasDot == i1 <= Len(t) /\ t[i1] = "."
        i2 == IF hasDot THEN ScanDigits(t, i1 + 1) ELSE i1
        hasE == i2 <= Len(t) /\ t[i2] \in {"e", "E"}
        e0 == IF i2 + 1 <= Len(t) /\ t[i2 + 1] \in {"+", "-"} THEN i2 + 2 ELSE i2 + 1
        end == IF hasE THEN ScanDigits(t, e0) ELSE i2
    IN  IF i1 = first \/ (t[first] = "0" /\ i1 > first + 1) THEN 0
        ELSE IF (hasDot /\ i2 = i1 + 1) \/ (hasE /\ end = e0) THEN 0
        ELSE end

\* the double v as a JavaScript value
NumberValue(v) ==
    IF Overflows(v) THEN JsOther("infinity")
    ELSE IF v.mant = 0 \/ Underflows(v) THEN JsOther("zero")
    ELSE JsNumber(NumberToString(v))

\* the number whose text is t[i..end-1], read as a double
NumberRead(t, i, end) ==
    IF end = 0 THEN ParseFails
    ELSE Parsed(NumberValue(parseFloat(SubSeq(t, i, end - 1))), end)

ParseNumber(t, i) == NumberRead(t, i, NumberEnd(t, i))

\* the word w from i
ParseWord(t, i, w, val) ==
    IF i + Len(w) - 1 <= Len(t) /\ SubSeq(t, i, i + Len(w) - 1) = w
    THEN Parsed(val, i + Len(w))
    ELSE ParseFails

\* a value from i
ParseValue(t, i) ==
    LET inner == SkipWhiteSpace(t, i + 1)
    IN  CASE t[i] = "{" ->
                LET r == IF inner <= Len(t) /\ t[inner] = "}"
                         THEN Parsed(EmptyObject, inner + 1)
                         ELSE ParseMembers(t, inner, EmptyObject)
                IN  IF r.ok THEN Parsed(JsObject(r.val), r.next) ELSE ParseFails
          [] t[i] = "[" ->
                LET r == IF inner <= Len(t) /\ t[inner] = "]"
                         THEN Parsed(<<>>, inner + 1)
                         ELSE ParseElements(t, inner, <<>>)
                IN  IF r.ok THEN Parsed(JsArray(r.val), r.next) ELSE ParseFails
          [] t[i] = Quote ->
                LET r == ParseString(t, i)
                IN  IF ~r.ok THEN ParseFails
                    ELSE IF r.val = <<>> THEN Parsed(JsOther("emptystring"), r.next)
                    ELSE Parsed(JsString(r.val), r.next)
          [] t[i] \in Digits \cup {"-"} -> ParseNumber(t, i)
          [] t[i] = "n" -> ParseWord(t, i, <<"n", "u", "l", "l">>, JsOther("null"))
          [] t[i] = "t" -> ParseWord(t, i, <<"t", "r", "u", "e">>, JsOther("true"))
          [] t[i] = "f" -> ParseWord(t, i, <<"f", "a", "l", "s", "e">>, JsOther("false"))
          [] OTHER -> ParseFails

\* JSON.parse(localStorage.getItem(STORAGE_KEY)): the value, Malformed when
\* it throws; no item is read as null, kept apart here as Absent
JSONparse(item) ==
    IF ~item.present THEN Absent
    ELSE LET t == item.chars
             i == SkipWhiteSpace(t, 1)
             r == ParseValue(t, i)
         IN  IF i > Len(t) THEN Malformed
             ELSE IF r.ok /\ SkipWhiteSpace(t, r.next) > Len(t) THEN r.val
             ELSE Malformed

-----------------------------------------------------------------------------
(* The pages *)

Pages == {"form", "destination", "summary"}

BOX == <<"b", "o", "x">>

BULK == <<"b", "u", "l", "k">>

PURCHASED == <<"p", "u", "r", "c", "h", "a", "s", "e", "d">>

ChipTypes == {BOX, BULK, PURCHASED}

\* values of the destination checkboxes, in document order
Destinations == <<(<<"E", "1">>), (<<"E", "2">>)>>

DestinationValues == {Destinations[i] : i \in 1..Len(Destinations)}

\* the input handler of the box number: value.replace(/[^a-z0-9]/gi, "")
SanitizeBox(value) == SelectSeq(value, LAMBDA c : c \in Letters \cup Digits)

\* the input handler of the bulk/silo value: value.replace(/\d/g, "")
SanitizeBulk(value) == SelectSeq(value, LAMBDA c : c \notin Digits)

\* Texts typed into the controls of step 1
BoxTyped == {<<>>, <<"A", "1">>, <<"A", "-">>}

BulkTyped == {<<>>, <<"S">>, <<"S", "1">>, <<"S", " ">>}

\* Values the controls hold when the form is submitted: what was typed, as
\* the input handlers leave it.  A value pre-filled from the store is one an
\* earlier submit stored, and reads as it does after normalizeText.
BoxInputs == {SanitizeBox(t) : t \in BoxTyped}

BulkInputs == {SanitizeBulk(t) : t \in BulkTyped}

PurchasedInputs == {<<>>, <<"V">>}

ProductInputs == {<<>>, <<"R">>}

NetWeightInputs == {<<>>, <<"5">>, <<"-", "5">>, <<"k", "g">>}

OperatorInputs == {<<"J", " ">>, <<" ", "J", " ", "D">>}

\* a submit that passes under every chip type
FilledInput ==
    [box |-> <<"A", "1">>, bulk |-> <<"S">>, purchased |-> <<"V">>,
     product |-> <<"R">>, netWeight |-> <<"5">>,
     operatorName |-> <<" ", "J", " ", "D">>]

\* The submits tried: the filled form with one control changed, and the form
\* with only the box number filled in
FormInputs ==
    {[FilledInput EXCEPT !.box = v] : v \in BoxInputs}
    \cup {[FilledInput EXCEPT !.bulk = v] : v \in BulkInputs}
    \cup {[FilledInput EXCEPT !.purchased = v] : v \in PurchasedInputs}
    \cup {[FilledInput EXCEPT !.product = v] : v \in ProductInputs}
    \cup {[FilledInput EXCEPT !.netWeight = v] : v \in NetWeightInputs}
    \cup {[FilledInput EXCEPT !.operatorName = v] : v \in OperatorInputs}
    \cup {[FilledInput EXCEPT !.bulk = <<>>, !.purchased = <<>>]}

\* new Date().toISOString()
Timestamp == <<"T">>

\* window.location.href = target: the document is replaced; the new one has
\* not run its initializer
Navigate(target, cause) ==
    /\ page' = target
    /\ navBy' = cause
    /\ phase' = "loading"
    /\ stored' = JsObject(EmptyObject)
    /\ chipSel' = EmptyString
    /\ checked' = {}
    /\ message' = ""
    /\ focus' = "none"
    /\ disabled' = FALSE
    /\ pending' = 0
    /\ redirectTimer' = FALSE
    /\ timers' = 0
    /\ alert' = ""

\* the guard shared by initDestinationPage and initSummaryPage
LacksStep1(value) ==
    \/ ~Truthy(value, "boxNumber")
    \/ ~Truthy(value, "product")
    \/ ~Truthy(value, "netWeight")
    \/ ~Truthy(value, "operatorName")

-----------------------------------------------------------------------------
(* Step 1: initFormPage *)

\* initFormPage up to the registration of its handlers; the controls of the
\* page are taken to exist
InitFormPage ==
    /\ page = "form" /\ phase = "loading"
    /\ stored' = getStoredData(store)
    /\ chipSel' = EmptyString
    /\ phase' = "ready"
    /\ navBy' = "none"
    /\ UNCHANGED <<store, page, checked, message, focus, disabled, pending,
                   redirectTimer, timers, alert, accepted>>

ChipControl(type) ==
    IF type = BOX THEN "chipBoxInput"
    ELSE IF type = BULK THEN "chipBulkInput"
    ELSE "chipPurchasedSelect"

\* click on a chip-type button
ChipTypeClick(type) ==
    /\ page = "form" /\ phase = "ready"
    /\ chipSel' = type
    /\ focus' = IF type \in ChipTypes THEN ChipControl(type) ELSE focus
    /\ store' = setStoredData(
            Merge(Spread(getStoredData(store)), [chipType |-> type]))
    /\ UNCHANGED <<page, phase, stored, checked, message, disabled, pending,
                   redirectTimer, timers, alert, navBy, accepted>>

Failure(text, control) == [message |-> text, focus |-> control, boxNumber |-> EmptyString]

\* checks that test the operator name before the net weight
RestChecksOperatorFirst(in, boxNumber) ==
    LET product == in.product
        netWeight == normalizeText(in.netWeight)
        netWeightValue == parseFloat(netWeight)
        operatorName == normalizeText(in.operatorName)
    IN  IF product = EmptyString
        THEN Failure("Please select a product.", "productSelect")
        ELSE IF operatorParts(operatorName) < 2
        THEN Failure("Please enter first and last name.", "operatorInput")
        ELSE IF netWeight = EmptyString
        THEN Failure("Please enter a net weight.", "netWeightInput")
        ELSE IF ~NumberIsFinite(netWeightValue) \/ IsNonPositive(netWeightValue)
        THEN Failure("Net weight must be a positive number.", "netWeightInput")
        ELSE [message |-> "", focus |-> "none", boxNumber |-> boxNumber]

\* the checks that follow the chip identity: product, net weight, operator
RestChecks(in, boxNumber) ==
    LET product == in.product
        netWeight == normalizeText(in.netWeight)
        netWeightValue == parseFloat(netWeight)
        operatorName == normalizeText(in.operatorName)
    IN  IF product = EmptyString
        THEN Failure("Please select a product.", "productSelect")
        ELSE IF netWeight = EmptyString
        THEN Failure("Please enter a net weight.", "netWeightInput")
        ELSE IF ~NumberIsFinite(netWeightValue) \/ IsNonPositive(netWeightValue)
        THEN Failure("Net weight must be a positive number.", "netWeightInput")
        ELSE IF operatorParts(operatorName) < 2
        THEN Failure("Please enter first and last name.", "operatorInput")
        ELSE [message |-> "", focus |-> "none", boxNumber |-> boxNumber]

\* the branch of chip type box
BoxChecks(in) ==
    LET chipBoxNumber == normalizeText(in.box)
    IN  IF chipBoxNumber = EmptyString
        THEN Failure("Please enter a box number.", "chipBoxInput")
        ELSE IF ~IsAlphanumeric(chipBoxNumber)
        THEN Failure("Box number must be alphanumeric only.", "chipBoxInput")
        ELSE RestChecks(in, chipBoxNumber)

\* the branch of chip type bulk
BulkChecks(in) ==
    LET chipBulkSilo == normalizeText(in.bulk)
    IN  IF chipBulkSilo = EmptyString
        THEN Failure("Please enter a bulk/silo value.", "chipBulkInput")
        ELSE IF HasDigit(chipBulkSilo)
        THEN Failure("Bulk/Silo must not contain numbers.", "chipBulkInput")
        ELSE RestChecks(in, chipBulkSilo)

\* the branch of chip type purchased
PurchasedChecks(in) ==
    LET chipPurchased == in.purchased
    IN  IF chipPurchased = EmptyString
        THEN Failure("Please select a purchased chip option.", "chipPurchasedSelect")
        ELSE RestChecks(in, chipPurchased)

\* a handler whose chain of chip types ends in the purchased branch
Step1ValidationNoElse(chipType, in) ==
    IF chipType = EmptyString
    THEN Failure("Please select what type of chip this is.", "chipTypeButtons[0]")
    ELSE IF chipType = BOX THEN BoxChecks(in)
    ELSE IF chipType = BULK THEN BulkChecks(in)
    ELSE PurchasedChecks(in)

\* The checks of the submit handler in their order; message "" when all pass
Step1Validation(chipType, in) ==
    IF chipType = EmptyString
    THEN Failure("Please select what type of chip this is.", "chipTypeButtons[0]")
    ELSE IF chipType = BOX THEN BoxChecks(in)
    ELSE IF chipType = BULK THEN BulkChecks(in)
    ELSE IF chipType = PURCHASED THEN PurchasedChecks(in)
    ELSE Failure("Please select what type of chip this is.", "chipTypeButtons[0]")

\* a record whose boxNumber is the box variant whatever the chip type
Step1RecordBoxOnly(base, chipType, in, boxNumber) ==
    Merge(base,
          [chipType |-> chipType,
           chipBoxNumber |-> normalizeText(in.box),
           chipBulkSilo |-> normalizeText(in.bulk),
           chipPurchased |-> in.purchased,
           boxNumber |-> normalizeText(in.box),
           product |-> in.product,
           netWeight |-> normalizeText(in.netWeight),
           operatorName |-> normalizeText(in.operatorName)])

\* the object written by a submit that passed
Step1Record(base, chipType, in, boxNumber) ==
    Merge(base,
          [chipType |-> chipType,
           chipBoxNumber |-> normalizeText(in.box),
           chipBulkSilo |-> normalizeText(in.bulk),
           chipPurchased |-> in.purchased,
           boxNumber |-> boxNumber,
           product |-> in.product,
           netWeight |-> normalizeText(in.netWeight),
           operatorName |-> normalizeText(in.operatorName)])

\* a failed check: the message is shown, the control focused, and the handler
\* returns
FormRejects(v) ==
    /\ message' = v.message
    /\ focus' = v.focus
    /\ UNCHANGED <<store, page, phase, stored, chipSel, checked, disabled,
                   pending, redirectTimer, timers, alert, navBy>>

\* setStoredData({...stored, chipType, ...}) and the move to step 2
FormPersists(base, in, v) ==
    /\ store' = setStoredData(Step1Record(base, chipSel, in, v.boxNumber))
    /\ Navigate("destination", "form submit")

\* a handler whose failed checks do not return
FormSubmitNoReturn(in) ==
    /\ page = "form" /\ phase = "ready"
    /\ FormPersists(Spread(stored), in, Step1Validation(chipSel, in))
    /\ UNCHANGED accepted

\* a handler that writes only its own fields
FormSubmitOwnFieldsOnly(in) ==
    /\ page = "form" /\ phase = "ready"
    /\ LET v == Step1Validation(chipSel, in)
       IN  IF v.message # "" THEN FormRejects(v)
           ELSE FormPersists(EmptyObject, in, v)
    /\ UNCHANGED accepted

\* submit of the step-1 form with the controls holding in
FormSubmit(in) ==
    /\ page = "form" /\ phase = "ready"
    /\ LET v == Step1Validation(chipSel, in)
       IN  IF v.message # "" THEN FormRejects(v)
           ELSE FormPersists(Spread(stored), in, v)
    /\ UNCHANGED accepted

-----------------------------------------------------------------------------
(* Step 2: initDestinationPage *)

\* the page is wired: the stored destination is ticked, handlers registered
DestinationReady(s) ==
    /\ stored' = s
    /\ checked' = IF Truthy(s, "destination")
                  THEN {s.obj["destination"]} \cap DestinationValues
                  ELSE {}
    /\ phase' = "ready"
    /\ navBy' = "none"
    /\ UNCHANGED <<page, chipSel, message, focus, disabled, pending,
                   redirectTimer, timers, alert>>

\* an initializer without the entry guard
InitDestinationPageNoGuard ==
    /\ page = "destination" /\ phase = "loading"
    /\ DestinationReady(getStoredData(store))
    /\ UNCHANGED <<store, accepted>>

InitDestinationPage ==
    /\ page = "destination" /\ phase = "loading"
    /\ LET s == getStoredData(store)
       IN  IF LacksStep1(s)
           THEN Navigate("form", "destination guard")
           ELSE DestinationReady(s)
    /\ UNCHANGED <<store, accepted>>

\* a change handler that leaves the other checkboxes as they are
DestinationChangeKeepsOthers(box) ==
    /\ page = "destination" /\ phase = "ready"
    /\ checked' = IF box \in checked THEN checked \ {box} ELSE checked \cup {box}
    /\ UNCHANGED <<store, page, phase, stored, chipSel, message, focus, disabled,
                   pending, redirectTimer, timers, alert, navBy, accepted>>

\* the user toggles checkbox box; its change handler unchecks the others
\* when box became checked
DestinationChange(box) ==
    /\ page = "destination" /\ phase = "ready"
    /\ checked' = IF box \in checked THEN checked \ {box} ELSE {box}
    /\ UNCHANGED <<store, page, phase, stored, chipSel, message, focus, disabled,
                   pending, redirectTimer, timers, alert, navBy, accepted>>

\* checkboxes.find((box) => box.checked): the first checked one
FirstChecked(set) ==
    Destinations[CHOOSE i \in 1..Len(Destinations) :
        /\ Destinations[i] \in set
        /\ \A j \in 1..(i - 1) : Destinations[j] \notin set]

\* no checkbox is checked: the message is shown and the handler returns
DestinationRejects ==
    /\ message' = "Please select a chip destination."
    /\ UNCHANGED <<store, page, phase, stored, chipSel, checked, focus,
                   disabled, pending, redirectTimer, timers, alert, navBy>>

\* setStoredData({...stored, destination}) and the move to step 3
DestinationPersists(base) ==
    /\ store' = setStoredData(Merge(base, [destination |-> FirstChecked(checked)]))
    /\ Navigate("summary", "destination submit")

\* a handler that writes only its own field
DestinationSubmitOwnFieldOnly ==
    /\ page = "destination" /\ phase = "ready"
    /\ IF checked = {} THEN DestinationRejects
       ELSE DestinationPersists(EmptyObject)
    /\ UNCHANGED accepted

DestinationSubmit ==
    /\ page = "destination" /\ phase = "ready"
    /\ IF checked = {} THEN DestinationRejects
       ELSE DestinationPersists(Spread(stored))
    /\ UNCHANGED accepted

-----------------------------------------------------------------------------
(* Step 3: initSummaryPage *)

\* the page is wired: fields shown, handlers registered
SummaryReady(s) ==
    /\ stored' = s
    /\ phase' = "ready"
    /\ navBy' = "none"
    /\ UNCHANGED <<page, chipSel, checked, message, focus, disabled, pending,
                   redirectTimer, timers, alert>>

\* an initializer that tests the destination before the step-1 fields
InitSummaryPageDestinationFirst ==
    /\ page = "summary" /\ phase = "loading"
    /\ LET s == getStoredData(store)
       IN  IF ~Truthy(s, "destination")
           THEN Navigate("destination", "summary guard")
           ELSE IF LacksStep1(s)
           THEN Navigate("form", "summary guard")
           ELSE SummaryReady(s)
    /\ UNCHANGED <<store, accepted>>

\* an initializer without the destination guard
InitSummaryPageNoDestinationGuard ==
    /\ page = "summary" /\ phase = "loading"
    /\ LET s == getStoredData(store)
       IN  IF LacksStep1(s)
           THEN Navigate("form", "summary guard")
           ELSE SummaryReady(s)
    /\ UNCHANGED <<store, accepted>>

InitSummaryPage ==
    /\ page = "summary" /\ phase = "loading"
    /\ LET s == getStoredData(store)
       IN  IF LacksStep1(s)
           THEN Navigate("form", "summary guard")
           ELSE IF ~Truthy(s, "destination")
           THEN Navigate("destination", "summary guard")
           ELSE SummaryReady(s)
    /\ UNCHANGED <<store, accepted>>

BodyKeys == {"boxNumber", "product", "netWeight", "operatorName", "destination"}

\* JSON.stringify({boxNumber: stored.boxNumber, ...}): a key whose value is
\* undefined is left out
RequestBody(value) ==
    [k \in {f \in BodyKeys : value.kind = "object" /\ f \in DOMAIN value.obj} |->
        value.obj[k]]

\* the handler past its disabled test, up to await fetch(...)
SaveRequested ==
    /\ pending < MaxPending
    /\ disabled' = TRUE
    /\ message' = ""
    /\ pending' = pending + 1

\* a handler without the disabled test
FinalSaveClickNoDisabledTest ==
    /\ page = "summary" /\ phase = "ready"
    /\ SaveRequested
    /\ UNCHANGED <<store, page, phase, stored, chipSel, checked, focus,
                   redirectTimer, timers, alert, navBy, accepted>>

\* click on #final-save
FinalSaveClick ==
    /\ page = "summary" /\ phase = "ready"
    /\ IF disabled
       THEN UNCHANGED <<disabled, message, pending>>
       ELSE SaveRequested
    /\ UNCHANGED <<store, page, phase, stored, chipSel, checked, focus,
                   redirectTimer, timers, alert, navBy, accepted>>

\* how a fetch ends: a 2xx response, another status, or a rejected promise
Outcomes == {"ok", "notOk", "rejected"}

\* a success branch that arms the redirect without clearTimeout(redirectTimer)
SaveSucceededNoCancel ==
    /\ alert' = "Saved to Excel."
    /\ store' = setStoredData(Merge(Spread(stored), [savedAt |-> Timestamp]))
    /\ message' = "Saved. Redirecting to the first page in 3 seconds."
    /\ timers' = timers + 1
    /\ redirectTimer' = TRUE
    /\ accepted' = IF accepted < MaxAccepted THEN accepted + 1 ELSE accepted
    /\ UNCHANGED disabled

\* the try block after response.ok: savedAt is stored and the redirect armed;
\* shouldUnlock = false leaves the button disabled
SaveSucceeded ==
    /\ alert' = "Saved to Excel."
    /\ store' = setStoredData(Merge(Spread(stored), [savedAt |-> Timestamp]))
    /\ message' = "Saved. Redirecting to the first page in 3 seconds."
    /\ timers' = (IF redirectTimer THEN timers - 1 ELSE timers) + 1
    /\ redirectTimer' = TRUE
    /\ accepted' = IF accepted < MaxAccepted THEN accepted + 1 ELSE accepted
    /\ UNCHANGED disabled

\* saveButton.disabled set to false from outside the handlers (the console,
\* another script): the one way a click handler starts while a handler is
\* suspended or a redirect is armed
SaveButtonEnabled ==
    /\ page = "summary" /\ phase = "ready"
    /\ disabled
    /\ disabled' = FALSE
    /\ UNCHANGED <<store, page, phase, stored, chipSel, checked, message, focus,
                   pending, redirectTimer, timers, alert, navBy, accepted>>

\* catch and finally: the alert, and the button enabled again
SaveFailed ==
    /\ alert' = "Save failed. Please try again."
    /\ disabled' = FALSE
    /\ UNCHANGED <<store, message, timers, redirectTimer, accepted>>

\* a handler that does not test response.ok
FetchSettlesIgnoringStatus(outcome) ==
    /\ page = "summary" /\ phase = "ready"
    /\ pending > 0
    /\ pending' = pending - 1
    /\ IF outcome \in {"ok", "notOk"} THEN SaveSucceeded ELSE SaveFailed
    /\ UNCHANGED <<page, phase, stored, chipSel, checked, focus, navBy>>

\* the rest of the click handler once its fetch has settled
FetchSettles(outcome) ==
    /\ page = "summary" /\ phase = "ready"
    /\ pending > 0
    /\ pending' = pending - 1
    /\ IF outcome = "ok" THEN SaveSucceeded ELSE SaveFailed
    /\ UNCHANGED <<page, phase, stored, chipSel, checked, focus, navBy>>

\* the callback of window.setTimeout(..., 3000)
RedirectTimerFires ==
    /\ timers > 0
    /\ store' = clearStoredData
    /\ Navigate("form", "redirect timer")
    /\ accepted' = 0

\* click on #go-back
GoBackClick ==
    /\ page = "summary" /\ phase = "ready"
    /\ Navigate("destination", "go back")
    /\ UNCHANGED <<store, accepted>>

-----------------------------------------------------------------------------
(* The browser and the server *)

\* the user opens a page of the wizard by its address, by reload or by the
\* browser's history
UserVisit(target) ==
    /\ Navigate(target, "user")
    /\ UNCHANGED <<store, accepted>>

\* typeof value === "string" ? value.trim() : "", applied to body[key]
getTrimmedString(body, key) ==
    IF key \in DOMAIN body THEN Trim(body[key]) ELSE EmptyString

\* validatePayload(body).missing, as a set
validatePayload(body) == {k \in BodyKeys : getTrimmedString(body, k) = EmptyString}

-----------------------------------------------------------------------------
(* The server *)

\* const HEADERS
HEADERS ==
    <<<<"B", "o", "x", " ", "N", "u", "m", "b", "e", "r">>,
      <<"P", "r", "o", "d", "u", "c", "t">>,
      <<"O", "p", "e", "r", "a", "t", "o", "r", " ", "N", "a", "m", "e">>,
      <<"C", "h", "i", "p", " ", "D", "e", "s", "t", "i", "n", "a", "t", "i", "o", "n">>,
      <<"D", "a", "t", "e">>,
      <<"T", "i", "m", "e">>,
      <<"N", "e", "t", " ", "W", "e", "i", "g", "h", "t">>>>

UpperCase ==
    <<"A", "B", "C", "D", "E", "F", "G", "H", "I", "J", "K", "L", "M",
      "N", "O", "P", "Q", "R", "S", "T", "U", "V", "W", "X", "Y", "Z">>

LowerCase ==
    <<"a", "b", "c", "d", "e", "f", "g", "h", "i", "j", "k", "l", "m",
      "n", "o", "p", "q", "r", "s", "t", "u", "v", "w", "x", "y", "z">>

\* String.prototype.toLowerCase on the letters A to Z
toLowerCase(s) ==
    [i \in 1..Len(s) |->
        IF \E n \in 1..Len(UpperCase) : UpperCase[n] = s[i]
        THEN LowerCase[CHOOSE n \in 1..Len(UpperCase) : UpperCase[n] = s[i]]
        ELSE s[i]]

\* getTrimmedString(value).toLowerCase(), of the text of a cell
normalizeHeaderValue(value) == toLowerCase(Trim(value))

\* the comparison without normalisation
headersMatchExactly(expected, actual) ==
    /\ Len(actual) >= Len(expected)
    /\ \A index \in 1..Len(expected) : actual[index] = expected[index]

headersMatch(expected, actual) ==
    /\ Len(actual) >= Len(expected)
    /\ \A index \in 1..Len(expected) :
            normalizeHeaderValue(actual[index]) = normalizeHeaderValue(expected[index])

\* The workbook file: missing, or holding a workbook (with or without the
\* sheet Sheet1, whose rows are sequences of cell texts), or damaged: bytes
\* that are no workbook
Workbook(hasSheet, rows) == [file |-> "workbook", hasSheet |-> hasSheet, rows |-> rows]

MissingFile == [file |-> "missing", hasSheet |-> FALSE, rows |-> <<>>]

DamagedFile == [file |-> "damaged", hasSheet |-> FALSE, rows |-> <<>>]

\* a load that starts from a new workbook whatever the file holds
loadWorkbookNew(file) == [threw |-> FALSE, book |-> Workbook(FALSE, <<>>)]

\* fs.existsSync(filePath) ? XLSX.readFile(filePath) : XLSX.utils.book_new();
\* reading a damaged file throws
loadWorkbook(file) ==
    IF file.file = "missing" THEN [threw |-> FALSE, book |-> Workbook(FALSE, <<>>)]
    ELSE [threw |-> file.file = "damaged", book |-> file]

\* XLSX.utils.sheet_add_aoa(worksheet, [HEADERS], { origin: "A1" }): the
\* cells of the first row past the seventh stay
StampHeaders(rows) ==
    IF rows = <<>> THEN <<HEADERS>>
    ELSE <<HEADERS \o SubSeq(rows[1], Len(HEADERS) + 1, Len(rows[1]))>> \o Tail(rows)

\* the rows of Sheet1 after getOrCreateWorksheet(workbook)
getOrCreateWorksheet(workbook) ==
    IF ~workbook.hasSheet THEN <<HEADERS>>
    ELSE IF workbook.rows = <<>> THEN StampHeaders(workbook.rows)
    ELSE IF ~headersMatch(HEADERS, workbook.rows[1]) THEN StampHeaders(workbook.rows)
    ELSE workbook.rows

\* new Date() as toLocaleDateString and toLocaleTimeString give it
Clock ==
    {[date |-> <<"1", "/", "2", "/", "2", "0", "2", "6">>, time |-> <<"0", "9", ":", "0", "5", " ", "A", "M">>],
     [date |-> <<"1", "/", "2", "/", "2", "0", "2", "6">>, time |-> <<"0", "9", ":", "0", "6", " ", "A", "M">>]}

\* const row = [boxNumber, product, operatorName, destination, date, time, netWeight]
SaveRow(body, now) ==
    <<getTrimmedString(body, "boxNumber"), getTrimmedString(body, "product"),
      getTrimmedString(body, "operatorName"), getTrimmedString(body, "destination"),
      now.date, now.time, getTrimmedString(body, "netWeight")>>

\* How the calls of fs end: all succeed; mkdirSync throws; writeFileSync
\* throws when it opens the file, which stays as it was; writeFileSync throws
\* after it opened and truncated the file, which is left damaged
FsOutcomes == {"ok", "mkdirThrows", "openThrows", "writeThrows"}

\* the file after the try block of the handler, and whether the block threw
SaveAttempt(file, row, fs) ==
    LET loaded == loadWorkbook(file)
    IN  IF fs = "mkdirThrows" \/ loaded.threw \/ fs = "openThrows"
        THEN [threw |-> TRUE, file |-> file]
        ELSE IF fs = "writeThrows" THEN [threw |-> TRUE, file |-> DamagedFile]
        ELSE [threw |-> FALSE,
              file |-> Workbook(TRUE, Append(getOrCreateWorksheet(loaded.book), row))]

\* a POST /save arrives, its JSON body parsed by express.json()
ReceiveSave(body) ==
    /\ Len(requests) + Len(replies) < MaxRequests
    /\ requests' = Append(requests, body)
    /\ UNCHANGED <<ledger, replies>>

Remove(seq, i) == SubSeq(seq, 1, i - 1) \o SubSeq(seq, i + 1, Len(seq))

\* app.post("/save", ...) runs for a received request, from validatePayload
\* to the response
HandleSave(i, now, fs) ==
    /\ i \in 1..Len(requests)
    /\ requests' = Remove(requests, i)
    /\ IF validatePayload(requests[i]) # {}
       THEN /\ replies' = Append(replies, 400)
            /\ UNCHANGED ledger
       ELSE LET attempt == SaveAttempt(ledger, SaveRow(requests[i], now), fs)
            IN  /\ ledger' = attempt.file
                /\ replies' = Append(replies, IF attempt.threw THEN 500 ELSE 200)

ServerIdle == ledger = MissingFile /\ requests = <<>> /\ replies = <<>>

-----------------------------------------------------------------------------
(* Specifications *)

\* An empty store: no item, unreadable text, or JSON null
EmptyItems == {Absent, Malformed, JsOther("null")}

InitWith(items) ==
    /\ store \in items
    /\ page \in Pages
    /\ phase = "loading"
    /\ stored = JsObject(EmptyObject)
    /\ chipSel = EmptyString
    /\ checked = {}
    /\ message = ""
    /\ focus = "none"
    /\ disabled = FALSE
    /\ pending = 0
    /\ redirectTimer = FALSE
    /\ timers = 0
    /\ alert = ""
    /\ navBy = "user"
    /\ accepted = 0

\* what the specifications of the wizard do not follow stays as it starts
ElsewhereIdle == itemText = NoItem /\ controls = FilledInput /\ ServerIdle

Init == InitWith(EmptyItems) /\ ElsewhereIdle

Next ==
    \/ InitFormPage /\ UNCHANGED elsewhere
    \/ InitDestinationPage /\ UNCHANGED elsewhere
    \/ InitSummaryPage /\ UNCHANGED elsewhere
    \/ \E type \in ChipTypes : ChipTypeClick(type) /\ UNCHANGED elsewhere
    \/ \E in \in FormInputs : FormSubmit(in) /\ UNCHANGED elsewhere
    \/ \E box \in DestinationValues : DestinationChange(box) /\ UNCHANGED elsewhere
    \/ DestinationSubmit /\ UNCHANGED elsewhere
    \/ FinalSaveClick /\ UNCHANGED elsewhere
    \/ \E outcome \in Outcomes : FetchSettles(outcome) /\ UNCHANGED elsewhere
    \/ RedirectTimerFires /\ UNCHANGED elsewhere
    \/ GoBackClick /\ UNCHANGED elsewhere
    \/ \E target \in Pages : UserVisit(target) /\ UNCHANGED elsewhere

Spec == Init /\ [][Next]_vars

\* The controls of step 1 holding text that no input handler has cleaned (a
\* value set without an input event): every check of the submit handler
\* can then fail
RawFormInputs ==
    FormInputs
    \cup {[FilledInput EXCEPT !.box = v] : v \in BoxTyped}
    \cup {[FilledInput EXCEPT !.bulk = v] : v \in BulkTyped}

RawNext ==
    \/ InitFormPage /\ UNCHANGED elsewhere
    \/ InitDestinationPage /\ UNCHANGED elsewhere
    \/ InitSummaryPage /\ UNCHANGED elsewhere
    \/ \E type \in ChipTypes : ChipTypeClick(type) /\ UNCHANGED elsewhere
    \/ \E in \in RawFormInputs : FormSubmit(in) /\ UNCHANGED elsewhere
    \/ \E box \in DestinationValues : DestinationChange(box) /\ UNCHANGED elsewhere
    \/ DestinationSubmit /\ UNCHANGED elsewhere
    \/ FinalSaveClick /\ UNCHANGED elsewhere
    \/ \E outcome \in Outcomes : FetchSettles(outcome) /\ UNCHANGED elsewhere
    \/ RedirectTimerFires /\ UNCHANGED elsewhere
    \/ GoBackClick /\ UNCHANGED elsewhere
    \/ \E target \in Pages : UserVisit(target) /\ UNCHANGED elsewhere

RawSpec == Init /\ [][RawNext]_vars

\* The wizard used through its own controls only
WizardNext ==
    \/ InitFormPage /\ UNCHANGED elsewhere
    \/ InitDestinationPage /\ UNCHANGED elsewhere
    \/ InitSummaryPage /\ UNCHANGED elsewhere
    \/ \E type \in ChipTypes : ChipTypeClick(type) /\ UNCHANGED elsewhere
    \/ \E in \in FormInputs : FormSubmit(in) /\ UNCHANGED elsewhere
    \/ \E box \in DestinationValues : DestinationChange(box) /\ UNCHANGED elsewhere
    \/ DestinationSubmit /\ UNCHANGED elsewhere
    \/ FinalSaveClick /\ UNCHANGED elsewhere
    \/ \E outcome \in Outcomes : FetchSettles(outcome) /\ UNCHANGED elsewhere
    \/ RedirectTimerFires /\ UNCHANGED elsewhere
    \/ GoBackClick /\ UNCHANGED elsewhere

\* A loaded document runs its initializer, and a timeout that is armed again
\* and again runs; the user may stop acting at any point
FairWizardSpec ==
    /\ Init /\ [][WizardNext]_vars
    /\ WF_vars(InitFormPage /\ UNCHANGED elsewhere)
    /\ WF_vars(InitDestinationPage /\ UNCHANGED elsewhere)
    /\ WF_vars(InitSummaryPage /\ UNCHANGED elsewhere)
    /\ SF_vars(RedirectTimerFires /\ UNCHANGED elsewhere)

\* Items another writer of the same key may have left: any text, and objects
\* holding any part of the fields the guards read
ForeignValues == {EmptyString, <<"E", "1">>}

ForeignObjects == UNION {[K -> ForeignValues] : K \in SUBSET BodyKeys}

AnyItems ==
    {Absent, Malformed}
    \cup {JsOther(k) : k \in FalsyKinds \cup {"true", "infinity"}}
    \cup {JsNumber(<<"5">>), JsString(<<"x">>), JsArray(<< <<"x">> >>)}
    \cup {JsObject(r) : r \in ForeignObjects}

GuardInit == InitWith(AnyItems) /\ ElsewhereIdle

\* page loads only: the user opens pages and their initializers run
GuardNext ==
    \/ InitFormPage /\ UNCHANGED elsewhere
    \/ InitDestinationPage /\ UNCHANGED elsewhere
    \/ InitSummaryPage /\ UNCHANGED elsewhere
    \/ \E target \in Pages : UserVisit(target) /\ UNCHANGED elsewhere

GuardSpec == GuardInit /\ [][GuardNext]_vars

\* Step 1 alone, with the controls holding every short text over a few
\* characters: the filled form with one control changed, and the empty form
MaxText == 3

TextsOver(chars) == UNION {[1..n -> chars] : n \in 0..MaxText}

WeightChars == {"0", "5", "-", ".", "k", " "}

BoxChars == {"A", "1", "-", " "}

BulkChars == {"S", "1", "-", " "}

OperatorChars == {"J", " ", "\t"}

\* a data-chip-type the submit handler has no branch for
OtherTag == <<"o", "t", "h", "e", "r">>

ChipTags == ChipTypes \cup {OtherTag}

EmptyInput ==
    [box |-> <<>>, bulk |-> <<>>, purchased |-> <<>>, product |-> <<>>,
     netWeight |-> <<>>, operatorName |-> <<>>]

ValidateInputs ==
    {[FilledInput EXCEPT !.box = v] : v \in TextsOver(BoxChars)}
    \cup {[FilledInput EXCEPT !.bulk = v] : v \in TextsOver(BulkChars)}
    \cup {[FilledInput EXCEPT !.purchased = v] : v \in PurchasedInputs}
    \cup {[FilledInput EXCEPT !.product = v] : v \in ProductInputs}
    \cup {[FilledInput EXCEPT !.netWeight = v] : v \in TextsOver(WeightChars)}
    \cup {[FilledInput EXCEPT !.operatorName = v] : v \in TextsOver(OperatorChars)}
    \cup {EmptyInput}

ValidateInit == InitWith({Absent}) /\ page = "form" /\ ElsewhereIdle

ValidateNext ==
    \/ InitFormPage /\ UNCHANGED elsewhere
    \/ \E type \in ChipTags : ChipTypeClick(type) /\ UNCHANGED elsewhere
    \/ \E in \in ValidateInputs : FormSubmit(in) /\ UNCHANGED elsewhere

ValidateSpec == ValidateInit /\ [][ValidateNext]_vars

\* OrderSpec: step 1 with every control good, empty or bad independently of
\* the others, so that several checks fail at once; the controls keep what
\* was typed before the first submit
OrderInputs ==
    [box : {<<>>, <<"A", "1">>, <<"-">>},
     bulk : {<<>>, <<"S">>, <<"1">>},
     purchased : PurchasedInputs,
     product : ProductInputs,
     netWeight : {<<>>, <<"5">>, <<"5", "0">>, <<"0">>, <<"k">>},
     operatorName : {<<>>, <<"J">>, <<"J", " ", "D">>, <<"J", "\t", "K">>}]

OrderInit ==
    /\ InitWith({Absent})
    /\ page = "form"
    /\ itemText = NoItem
    /\ controls \in OrderInputs
    /\ ServerIdle

OrderNext ==
    \/ InitFormPage /\ UNCHANGED elsewhere
    \/ \E type \in ChipTags : ChipTypeClick(type) /\ UNCHANGED elsewhere
    \/ FormSubmit(controls) /\ UNCHANGED elsewhere

OrderSpec == OrderInit /\ [][OrderNext]_vars

\* The item as text.  Texts another writer may have left, well formed and
\* not, and the values the handlers write
ItemTexts ==
    {NoItem} \cup {ItemOf(t) : t \in {
        <<>>,
        <<"{">>,
        <<"{", "}">>,
        <<" ", "{", " ", "}", " ">>,
        <<"n", "u", "l", "l">>,
        <<"n", "u", "l">>,
        <<"f", "a", "l", "s", "e">>,
        <<"t", "r", "u", "e">>,
        <<"0">>,
        <<"5">>,
        <<"-", "5">>,
        <<"0", "5">>,
        <<"1", "e", "9", "9", "9">>,
        <<"1", "e", "2">>,
        <<"5", ".", "5", "0">>,
        <<"1", "E", "-", "7">>,
        <<"5", ".">>,
        <<Quote, Quote>>,
        <<Quote, "x", Quote>>,
        <<Quote, "a", Backslash, Quote, "b", Quote>>,
        <<Quote, "x">>,
        <<"[", "]">>,
        <<"[", Quote, "x", Quote, "]">>,
        <<"[", Quote, "x", Quote, ",", Quote, "y", Quote, "]">>,
        <<"[", Quote, "x", Quote, ",", "]">>,
        <<"{", Quote, "p", "r", "o", "d", "u", "c", "t", Quote, ":", Quote, "R", Quote, "}">>,
        <<"{", Quote, "p", "r", "o", "d", "u", "c", "t", Quote, ":", Quote, "R", Quote, ",", "}">>,
        <<"{", Quote, "p", "r", "o", "d", "u", "c", "t", Quote, ":", " ", Quote, "a", Backslash, Quote, "b", Quote, "}">>,
        <<"{", Quote, "o", "p", "e", "r", "a", "t", "o", "r", "N", "a", "m", "e", Quote, ":", " ", Quote, "J", Backslash, "t", "D", Quote, "}">>,
        <<"{", Quote, "o", "p", "e", "r", "a", "t", "o", "r", "N", "a", "m", "e", Quote, ":", Quote, "J", "\t", "D", Quote, "}">>,
        <<"{", Quote, "p", "r", "o", "d", "u", "c", "t", Quote, ":", Quote, "R", Quote, ",", Quote, "d", "e", "s", "t", "i", "n", "a", "t", "i", "o", "n", Quote, ":", Quote, "E", "1", Quote, "}">>,
        <<"{", "'", "p", "r", "o", "d", "u", "c", "t", "'", ":", "'", "R", "'", "}">>,
        <<"{", Quote, "p", "r", "o", "d", "u", "c", "t", Quote, ":", Quote, "R", Quote, "}", " ", "x">>,
        <<"{", Quote, "p", "r", "o", "d", "u", "c", "t", Quote, ":", Quote, "R", Quote, ",", Quote, "p", "r", "o", "d", "u", "c", "t", Quote, ":", Quote, "S", Quote, "}">>,
        <<"{", Quote, "p", "r", "o", "d", "u", "c", "t", Quote, ":", Quote, "R", Quote, " ", Quote, "d", "e", "s", "t", "i", "n", "a", "t", "i", "o", "n", Quote, ":", Quote, "E", "1", Quote, "}">>}}

FieldValues == {<<"R">>, <<"J", "\t", "D">>, <<"a", Quote, Backslash>>}

StoreInit ==
    /\ InitWith({JSONparse(i) : i \in ItemTexts})
    /\ page = "form"
    /\ itemText \in ItemTexts
    /\ store = JSONparse(itemText)
    /\ controls = FilledInput
    /\ ServerIdle

\* const stored = getStoredData()
LoadItem ==
    /\ stored' = getStoredData(JSONparse(itemText))
    /\ phase' = "ready"
    /\ UNCHANGED <<store, page, chipSel, checked, message, focus, disabled,
                   pending, redirectTimer, timers, alert, navBy, accepted,
                   itemText, server, controls>>

\* localStorage.setItem(STORAGE_KEY, JSON.stringify(value))
SetItem(value) ==
    /\ itemText' = ItemOf(JSONstringify(value))
    /\ store' = JSONparse(itemText')
    /\ UNCHANGED <<page, phase, stored, chipSel, checked, message, focus,
                   disabled, pending, redirectTimer, timers, alert, navBy,
                   accepted, server, controls>>

\* setStoredData(stored): what was loaded is saved as it is
SaveLoaded == phase = "ready" /\ SetItem(stored)

\* setStoredData({ ...stored, key: value }), the write of every handler
SaveField(key, value) ==
    /\ phase = "ready"
    /\ SetItem(JsObject(Merge(Spread(stored), [k \in {key} |-> value])))

\* clearStoredData()
ClearItem ==
    /\ itemText' = NoItem
    /\ store' = clearStoredData
    /\ UNCHANGED <<page, phase, stored, chipSel, checked, message, focus,
                   disabled, pending, redirectTimer, timers, alert, navBy,
                   accepted, server, controls>>

StoreNext ==
    \/ LoadItem
    \/ SaveLoaded
    \/ \E key \in {"product", "destination"}, value \in FieldValues :
            SaveField(key, value)
    \/ ClearItem

StoreSpec == StoreInit /\ [][StoreNext]_vars

\* ReentrantSpec: the wizard with a save button that can be enabled from
\* outside, so that click handlers overlap and a save succeeds while a
\* redirect is armed
ReentrantNext ==
    \/ InitFormPage /\ UNCHANGED elsewhere
    \/ InitDestinationPage /\ UNCHANGED elsewhere
    \/ InitSummaryPage /\ UNCHANGED elsewhere
    \/ \E type \in ChipTypes : ChipTypeClick(type) /\ UNCHANGED elsewhere
    \/ FormSubmit(FilledInput) /\ UNCHANGED elsewhere
    \/ \E box \in DestinationValues : DestinationChange(box) /\ UNCHANGED elsewhere
    \/ DestinationSubmit /\ UNCHANGED elsewhere
    \/ FinalSaveClick /\ UNCHANGED elsewhere
    \/ SaveButtonEnabled /\ UNCHANGED elsewhere
    \/ \E outcome \in Outcomes : FetchSettles(outcome) /\ UNCHANGED elsewhere
    \/ RedirectTimerFires /\ UNCHANGED elsewhere
    \/ GoBackClick /\ UNCHANGED elsewhere
    \/ \E target \in Pages : UserVisit(target) /\ UNCHANGED elsewhere

ReentrantSpec == Init /\ [][ReentrantNext]_vars

\* ServerSpec: the server alone. Requests arrive with bodies that pass and
\* fail validatePayload, the workbook file starts in each shape the handler
\* tells apart, and the calls of fs end in each of FsOutcomes.
GoodBody ==
    [boxNumber |-> <<"A", "1">>, product |-> <<"R">>, netWeight |-> <<"5">>,
     operatorName |-> <<"J", " ", "D">>, destination |-> <<"E", "1">>]

ServerBodies ==
    {GoodBody,
     [GoodBody EXCEPT !.boxNumber = <<" ", "B", "2", " ">>],
     [GoodBody EXCEPT !.netWeight = <<" ">>],
     [k \in BodyKeys \ {"destination"} |-> GoodBody[k]]}

OldRow == SaveRow(GoodBody, [date |-> <<"1", "/", "1", "/", "2", "0", "2", "6">>, time |-> <<"0", "4", ":", "3", "0", " ", "P", "M">>])

LooseHeaders ==
    <<<<" ", "b", "o", "x", " ", "n", "u", "m", "b", "e", "r">>,
      <<"P", "R", "O", "D", "U", "C", "T">>,
      <<"O", "p", "e", "r", "a", "t", "o", "r", " ", "N", "a", "m", "e", " ">>,
      <<"c", "h", "i", "p", " ", "d", "e", "s", "t", "i", "n", "a", "t", "i", "o", "n">>,
      <<"d", "a", "t", "e">>,
      <<"T", "I", "M", "E">>,
      <<"N", "e", "t", " ", "W", "e", "i", "g", "h", "t">>,
      <<"N", "o", "t", "e", "s">>>>

InitialLedgers ==
    {MissingFile, DamagedFile, Workbook(FALSE, <<>>), Workbook(TRUE, <<>>),
     Workbook(TRUE, <<HEADERS>>), Workbook(TRUE, <<HEADERS, OldRow>>),
     Workbook(TRUE, <<LooseHeaders, OldRow>>),
     Workbook(TRUE, <<OldRow, OldRow>>),
     Workbook(TRUE, <<SubSeq(HEADERS, 1, 6), OldRow>>)}

ServerInit ==
    /\ InitWith({Absent})
    /\ page = "form"
    /\ itemText = NoItem
    /\ controls = FilledInput
    /\ ledger \in InitialLedgers
    /\ requests = <<>>
    /\ replies = <<>>

ServerNext ==
    \/ \E body \in ServerBodies : ReceiveSave(body) /\ UNCHANGED browser
    \/ \E i \in 1..MaxRequests, now \in Clock, fs \in FsOutcomes :
            HandleSave(i, now, fs) /\ UNCHANGED browser

ServerSpec == ServerInit /\ [][ServerNext]_vars

-----------------------------------------------------------------------------
(* Properties *)

Record == Spread(getStoredData(store))

HasKey(key) == key \in DOMAIN Record

OnSummary == page = "summary" /\ phase = "ready"

\* C1: a click on the save button while a /save request of the page is
\* outstanding issues no request and changes nothing, so at most one request
\* of a summary page is outstanding at any time.
C1_OneSaveInFlight ==
    /\ [](pending <= 1)
    /\ [][(pending > 0 /\ FinalSaveClick) => UNCHANGED vars]_vars

\* a request is outstanding and the button is there to be clicked again
C1_Witness == OnSummary /\ pending = 1 /\ disabled

\* C2: once a submission has been accepted, savedAt is in the stored record,
\* and the store is eventually cleared with the tab on step 1, whatever the
\* user does on the summary page meanwhile.
C2_AcceptedLeadsToCleared ==
    /\ [][(FetchSettles("ok")) => "savedAt" \in DOMAIN Spread(getStoredData(store'))]_vars
    /\ (accepted > 0) ~> (store = Absent /\ page = "form")

\* C3: a fetch that ends in a non-2xx status or in a rejection leaves the tab
\* on step 3, the store as it was from the click on, no timer armed, and the
\* button enabled with no request outstanding, so a click sends again.
C3_FailedSaveKeepsState ==
    /\ [][(\E o \in Outcomes \ {"ok"} : FetchSettles(o)) =>
            /\ page' = "summary" /\ phase' = "ready"
            /\ store' = store
            /\ timers' = timers /\ redirectTimer' = redirectTimer
            /\ ~disabled' /\ pending' = 0]_vars
    /\ [][pending' > 0 => store' = store]_vars

\* the failure alert has been shown and the button is enabled again
C3_Witness ==
    /\ OnSummary /\ alert = "Save failed. Please try again."
    /\ ~disabled /\ pending = 0 /\ timers = 0 /\ ~HasKey("savedAt")

\* C4: the initializer of step 2 or step 3, run on a store whose record lacks
\* boxNumber, product, netWeight or operatorName, sends the tab to step 1,
\* writes nothing, wires no handler and issues no request.
C4_Step1Guard ==
    [][((InitDestinationPage \/ InitSummaryPage) /\ LacksStep1(getStoredData(store))) =>
            /\ page' = "form" /\ phase' = "loading"
            /\ store' = store
            /\ pending' = 0 /\ timers' = 0]_vars

\* step 3 was opened on a record with a destination and three of the four
\* step-1 fields, and the guard has sent the tab to step 1
C4_Witness ==
    /\ page = "form" /\ phase = "loading" /\ navBy = "summary guard"
    /\ Truthy(getStoredData(store), "destination")
    /\ Truthy(getStoredData(store), "boxNumber")
    /\ Truthy(getStoredData(store), "product")
    /\ Truthy(getStoredData(store), "netWeight")
    /\ ~Truthy(getStoredData(store), "operatorName")

\* C5: the initializer of step 3, run on a record with the four step-1 fields
\* and no destination, sends the tab to step 2, writes nothing and wires no
\* handler; when step-1 fields are lacking it sends the tab to step 1 whether
\* or not a destination is stored.
C5_DestinationGuard ==
    /\ [][(InitSummaryPage /\ ~LacksStep1(getStoredData(store))
            /\ ~Truthy(getStoredData(store), "destination")) =>
                /\ page' = "destination" /\ phase' = "loading"
                /\ store' = store
                /\ pending' = 0 /\ timers' = 0]_vars
    /\ [][(InitSummaryPage /\ LacksStep1(getStoredData(store))) => page' = "form"]_vars

\* the guard of step 3 has sent the tab to step 2
C5_Witness ==
    /\ page = "destination" /\ phase = "loading" /\ navBy = "summary guard"
    /\ ~LacksStep1(getStoredData(store))
    /\ ~Truthy(getStoredData(store), "destination")

\* the stored record, read as the controls of step 1
RecordAsInput ==
    [f \in {"box", "bulk", "purchased", "product", "netWeight", "operatorName"} |->
        LET key == CASE f = "box" -> "chipBoxNumber"
                     [] f = "bulk" -> "chipBulkSilo"
                     [] f = "purchased" -> "chipPurchased"
                     [] OTHER -> f
        IN  IF HasKey(key) THEN Record[key] ELSE EmptyString]

\* C6: a stored record with a destination has a chip type whose own value,
\* and a product, net weight and operator name, that pass the checks of step 1.
C6_StepGating ==
    HasKey("destination") =>
        /\ HasKey("chipType")
        /\ Step1Validation(Record["chipType"], RecordAsInput).message = ""

\* C7: the stored record has savedAt exactly when a save has succeeded since
\* the store was last cleared.
C7_SavedAtIffAccepted == HasKey("savedAt") <=> accepted > 0

\* savedAt has outlived a later submit of step 1
C7_Witness ==
    /\ HasKey("savedAt") /\ accepted > 0
    /\ page = "destination" /\ navBy = "form submit"

\* C8: only the timeout armed after a successful save clears the store; every
\* other step keeps each key the stored record has.
C8_OnlyTimerClears ==
    [][\/ /\ DOMAIN Record \subseteq DOMAIN Spread(getStoredData(store'))
          /\ store' = Absent => store = Absent
       \/ /\ timers > 0 /\ accepted > 0
          /\ navBy' = "redirect timer"]_vars

\* the timeout has cleared the store
C8_Witness == store = Absent /\ navBy = "redirect timer" /\ page = "form"

\* C9: the body of an outstanding /save request has the five fields, each
\* non-empty and equal to the stored record's, and validatePayload finds
\* none missing.
C9_RequestComplete ==
    pending > 0 =>
        LET body == RequestBody(stored)
        IN  /\ DOMAIN body = BodyKeys
            /\ \A k \in BodyKeys : body[k] # EmptyString /\ HasKey(k) /\ body[k] = Record[k]
            /\ validatePayload(body) = {}

\* a request is outstanding
C9_Witness == OnSummary /\ pending > 0 /\ validatePayload(RequestBody(stored)) = {}

\* C10: a submit of step 1 that fails a check, whichever it is, leaves the tab
\* on step 1 and the store as it was.
C10_FailedSubmitKeepsStore ==
    [][(/\ page = "form" /\ phase = "ready"
        /\ \E in \in RawFormInputs :
            FormSubmit(in) /\ Step1Validation(chipSel, in).message # "") =>
                /\ store' = store
                /\ page' = "form" /\ phase' = "ready"]_vars

\* a submit with a negative net weight has been refused on a stored record
C10_Witness ==
    /\ page = "form" /\ phase = "ready"
    /\ message = "Net weight must be a positive number."
    /\ HasKey("destination")

\* the stored field that holds the value of chip type type
VariantKey(type) ==
    IF type = BOX THEN "chipBoxNumber"
    ELSE IF type = BULK THEN "chipBulkSilo"
    ELSE "chipPurchased"

\* C11: a step-1 submit that passes validation moves the tab to step 2, and
\* the record it stores holds the selected chipType, the product, the
\* trimmed netWeight and operatorName, and a boxNumber equal to the value of
\* the variant the chip type selects; destination and savedAt stored
\* earlier are kept as they were.
C11_PassingSubmitPersists ==
    [][\A in \in FormInputs :
        (FormSubmit(in) /\ Step1Validation(chipSel, in).message = "") =>
            LET before == Spread(getStoredData(store))
                after == Spread(getStoredData(store'))
            IN  /\ page' = "destination"
                /\ {"chipType", "product", "netWeight", "operatorName",
                     "boxNumber"} \subseteq DOMAIN after
                /\ after["chipType"] = chipSel
                /\ after["product"] = in.product
                /\ after["netWeight"] = Trim(in.netWeight)
                /\ after["operatorName"] = Trim(in.operatorName)
                /\ after["boxNumber"] = after[VariantKey(chipSel)]
                /\ after["boxNumber"] =
                        (IF chipSel = BOX THEN Trim(in.box)
                         ELSE IF chipSel = BULK THEN Trim(in.bulk)
                         ELSE in.purchased)
                /\ \A k \in {"destination", "savedAt"} \cap DOMAIN before :
                        k \in DOMAIN after /\ after[k] = before[k]]_vars

\* a bulk submit has passed over a record that held a destination and savedAt
C11_Witness ==
    /\ page = "destination" /\ navBy = "form submit"
    /\ HasKey("destination") /\ HasKey("savedAt")
    /\ Record["chipType"] = BULK
    /\ Record["boxNumber"] = <<"S">>

\* the step showed an error, stayed on step 1 and stored nothing
SubmitRejected == message' # "" /\ page' = "form" /\ store' = store

\* the step is a submit that passed: the tab is on its way to step 2
SubmitPassed == page = "form" /\ page' = "destination" /\ navBy' = "form submit"

\* the record the step stored
StoredAfter == Spread(getStoredData(store'))

AllDigits(s) == \A i \in 1..Len(s) : s[i] \in Digits

\* digits, with an optional fraction: 5  5.  5.0  .5
IsMantissa(m) ==
    \E j \in 0..Len(m) :
        /\ AllDigits(SubSeq(m, 1, j))
        /\ \/ j = Len(m) /\ j > 0
           \/ /\ j < Len(m) /\ m[j + 1] = "."
              /\ AllDigits(SubSeq(m, j + 2, Len(m)))
              /\ (j > 0 \/ j + 1 < Len(m))

IsExponent(e) ==
    LET d == IF e # <<>> /\ e[1] \in {"+", "-"} THEN Tail(e) ELSE e
    IN  d # <<>> /\ AllDigits(d)

\* the whole of s, but for white space around it, is one decimal number
IsNumeral(s) ==
    LET t == Trim(s)
        u == IF t # <<>> /\ t[1] \in {"+", "-"} THEN Tail(t) ELSE t
    IN  \E i \in 1..Len(u) :
            /\ IsMantissa(SubSeq(u, 1, i))
            /\ \/ i = Len(u)
               \/ u[i + 1] \in {"e", "E"} /\ IsExponent(SubSeq(u, i + 2, Len(u)))

\* s is a number, finite and above 0
IsPositiveNumber(s) ==
    /\ IsNumeral(s)
    /\ NumberIsFinite(parseFloat(s))
    /\ ~IsNonPositive(parseFloat(s))

BadWeightInputs == {in \in ValidateInputs : ~IsPositiveNumber(in.netWeight)}

\* C12: a step-1 submit whose net weight is not a finite number above 0
\* (0, -5, abc, the empty text, or text that only begins with a number) is
\* rejected and stores nothing: a step that is not a rejection is no submit
\* of such a net weight.
C12_BadWeightRejected ==
    [][\/ SubmitRejected
       \/ \A in \in BadWeightInputs : ~FormSubmit(in)]_vars

NonAlphanumeric(s) == \E i \in 1..Len(s) : s[i] \notin Letters \cup Digits

NonAlphanumericInputs == {in \in ValidateInputs : NonAlphanumeric(in.box)}

\* C13 as stated: with chip type box, a submit whose box number holds any
\* character other than a letter or digit, white space at its ends
\* included, is rejected; a stored boxNumber of chip type box holds letters
\* and digits only.
C13_NonAlphanumericRejected ==
    [][/\ \/ SubmitRejected
          \/ chipSel # BOX
          \/ \A in \in NonAlphanumericInputs : ~FormSubmit(in)
       /\ (chipSel = BOX /\ SubmitPassed) =>
                ~NonAlphanumeric(StoredAfter["boxNumber"])]_vars

TrimmedNonAlphanumericInputs ==
    {in \in ValidateInputs :
        Trim(in.box) = <<>> \/ NonAlphanumeric(Trim(in.box))}

\* C13: with chip type box, a submit whose box number, once the white space
\* at its ends is removed, is empty or holds any character other than a
\* letter or digit is rejected; a stored boxNumber of chip type box is not
\* empty and holds letters and digits only.
C13_TrimmedNonAlphanumericRejected ==
    [][/\ \/ SubmitRejected
          \/ chipSel # BOX
          \/ \A in \in TrimmedNonAlphanumericInputs : ~FormSubmit(in)
       /\ (chipSel = BOX /\ SubmitPassed) =>
                /\ StoredAfter["boxNumber"] # <<>>
                /\ ~NonAlphanumeric(StoredAfter["boxNumber"])]_vars

\* a box number was refused for a character that is no letter or digit
C13_Witness ==
    /\ page = "form" /\ chipSel = BOX
    /\ message = "Box number must be alphanumeric only."

ContainsDigit(s) == \E i \in 1..Len(s) : s[i] \in Digits

DigitBulkInputs == {in \in ValidateInputs : ContainsDigit(in.bulk)}

\* C14: with chip type bulk, a submit whose bulk/silo text holds a digit is
\* rejected; the boxNumber a bulk submit stores holds no digit.
C14_BulkDigitRejected ==
    [][/\ \/ SubmitRejected
          \/ chipSel # BULK
          \/ \A in \in DigitBulkInputs : ~FormSubmit(in)
       /\ (chipSel = BULK /\ SubmitPassed) =>
                ~ContainsDigit(StoredAfter["boxNumber"])]_vars

\* a bulk/silo text was refused for a digit
C14_Witness ==
    /\ page = "form" /\ chipSel = BULK
    /\ message = "Bulk/Silo must not contain numbers."

\* the step is a rejection with the select-chip-type message
ChipTypeRejected ==
    /\ message' = "Please select what type of chip this is."
    /\ focus' = "chipTypeButtons[0]"
    /\ SubmitRejected

\* C15: a submit with no chip type selected, or with a chip type other than
\* box, bulk and purchased, is rejected with the select-chip-type message
\* and the focus on the first chip-type button, whatever the other controls
\* hold.
C15_ChipTypeFirst ==
    [][\/ ChipTypeRejected
       \/ chipSel \in ChipTypes
       \/ \A in \in ValidateInputs : ~FormSubmit(in)]_vars

\* a submit under a chip type without a branch was refused
C15_Witness ==
    /\ page = "form" /\ chipSel = OtherTag
    /\ message = "Please select what type of chip this is."
    /\ focus = "chipTypeButtons[0]"

\* some white space of s stands between two characters that are not
TwoTokens(s) ==
    \E i, j, k \in 1..Len(s) :
        /\ i < j /\ j < k
        /\ s[i] \notin WhiteSpace /\ s[j] \in WhiteSpace /\ s[k] \notin WhiteSpace

OneTokenInputs == {in \in ValidateInputs : ~TwoTokens(in.operatorName)}

\* C16: a submit whose operator name has fewer than two tokens separated by
\* white space is rejected; a stored operatorName has at least two.
C16_OperatorTwoTokens ==
    [][/\ \/ SubmitRejected
          \/ \A in \in OneTokenInputs : ~FormSubmit(in)
       /\ SubmitPassed => TwoTokens(StoredAfter["operatorName"])]_vars

\* an operator name of one token was refused
C16_Witness ==
    /\ page = "form" /\ chipSel \in ChipTypes
    /\ message = "Please enter first and last name."

\* The item of the wizard's specifications is the value of the text: an
\* object of strings that a handler writes is read back as that object
WrittenObjectReadsBack ==
    [][\A key \in {"product", "destination"}, value \in FieldValues :
        SaveField(key, value) =>
            store' = setStoredData(Merge(Spread(stored), [k \in {key} |-> value]))]_vars

\* C17: a load of the store gives an empty record when there is no item,
\* when its text is not JSON, and when its text is JSON of anything but an
\* object: null, a number, a string, an array.
C17_NotARecordLoadsEmpty ==
    [][LoadItem =>
        (JSONparse(itemText).kind # "object" => stored' = JsObject(EmptyObject))]_vars

\* C18: whatever the item holds, saving what a load gave and loading again
\* gives what the first load gave; saving it once more leaves the item as
\* it is.
C18_LoadSaveLoad ==
    [][SaveLoaded =>
        /\ getStoredData(JSONparse(itemText')) = stored
        /\ itemText = ItemOf(JSONstringify(stored)) => itemText' = itemText]_vars

\* the rows of the ledger below the header row
DataRows(file) ==
    IF file.file = "workbook" /\ file.hasSheet /\ file.rows # <<>>
    THEN Tail(file.rows)
    ELSE <<>>

\* C19: a run of the save handler answers with success exactly when the
\* ledger gains one data row, the seven columns box number, product,
\* operator name, destination, date, time and net weight of the request, and
\* with any other answer the ledger is left as it was.
C19_RowIffSuccess ==
    [][\A i \in 1..MaxRequests, now \in Clock, fs \in FsOutcomes :
        HandleSave(i, now, fs) =>
            /\ replies'[Len(replies')] = 200
                <=> DataRows(ledger') = Append(DataRows(ledger), SaveRow(requests[i], now))
            /\ replies'[Len(replies')] # 200 => ledger' = ledger]_vars

\* The same with the write of the file either done or refused as a whole
RowIffSuccessWholeWrites ==
    [][\A i \in 1..MaxRequests, now \in Clock, fs \in FsOutcomes \ {"writeThrows"} :
        HandleSave(i, now, fs) =>
            /\ replies'[Len(replies')] = 200
                <=> DataRows(ledger') = Append(DataRows(ledger), SaveRow(requests[i], now))
            /\ replies'[Len(replies')] # 200 => ledger' = ledger]_vars

\* C20: on a summary page at most one delayed clear-and-redirect is armed at
\* any time, and a save that succeeds while one is armed leaves exactly one
\* armed, the earlier one being cancelled.
C20_OneRedirectArmed ==
    [][/\ timers' <= 1
       /\ (redirectTimer /\ (FetchSettles("ok") /\ UNCHANGED elsewhere)) => timers' = 1]_vars

\* two saves succeeded on one load of the summary page (the record loaded
\* with the page has no savedAt), and one redirect is armed
C20_Witness ==
    /\ page = "summary" /\ phase = "ready"
    /\ accepted = 2
    /\ ~Truthy(stored, "savedAt")
    /\ timers = 1

\* the text of the variant that chip type t names
VariantText(t, in) ==
    IF t = BOX THEN Trim(in.box)
    ELSE IF t = BULK THEN Trim(in.bulk)
    ELSE IF t = PURCHASED THEN in.purchased
    ELSE <<>>

VariantControl(t) ==
    IF t = BOX THEN "chipBoxInput"
    ELSE IF t = BULK THEN "chipBulkInput"
    ELSE "chipPurchasedSelect"

Rule(violated, text, control) ==
    [violated |-> violated, message |-> text, focus |-> control]

\* The seven rules of step 1 in their order, each judged on its own: chip
\* type, variant value present, variant character class, product, net
\* weight present, net weight positive, operator name
Rules(t, in) ==
    <<Rule(t \notin ChipTypes,
           "Please select what type of chip this is.", "chipTypeButtons[0]"),
      Rule(t \in ChipTypes /\ VariantText(t, in) = <<>>,
           IF t = BOX THEN "Please enter a box number."
           ELSE IF t = BULK THEN "Please enter a bulk/silo value."
           ELSE "Please select a purchased chip option.",
           VariantControl(t)),
      Rule(\/ t = BOX /\ NonAlphanumeric(VariantText(t, in))
           \/ t = BULK /\ ContainsDigit(VariantText(t, in)),
           IF t = BOX THEN "Box number must be alphanumeric only."
           ELSE "Bulk/Silo must not contain numbers.",
           VariantControl(t)),
      Rule(in.product = <<>>, "Please select a product.", "productSelect"),
      Rule(Trim(in.netWeight) = <<>>, "Please enter a net weight.", "netWeightInput"),
      Rule(~IsPositiveNumber(in.netWeight),
           "Net weight must be a positive number.", "netWeightInput"),
      Rule(~TwoTokens(in.operatorName),
           "Please enter first and last name.", "operatorInput")>>

Violated(t, in) == {i \in 1..7 : Rules(t, in)[i].violated}

\* the earliest violated rule; no rule violated: message ""
Earliest(t, in) ==
    IF Violated(t, in) = {} THEN Rule(FALSE, "", "none")
    ELSE Rules(t, in)[CHOOSE i \in Violated(t, in) : \A j \in Violated(t, in) : i <= j]

C22_SingleDestination ==
    [][/\ Cardinality(checked') <= 1
       /\ (DestinationSubmit /\ UNCHANGED elsewhere) =>
            IF checked = {}
            THEN /\ message' = "Please select a chip destination."
                 /\ page' = "destination" /\ phase' = "ready"
                 /\ store' = store
            ELSE /\ checked = {StoredAfter["destination"]}
                 /\ DOMAIN StoredAfter = DOMAIN Spread(getStoredData(store)) \cup {"destination"}
                 /\ \A k \in DOMAIN StoredAfter \ {"destination"} :
                        StoredAfter[k] = Spread(getStoredData(store))[k]
                 /\ page' = "summary" /\ navBy' = "destination submit"]_vars

\* step 2 was pre-filled with the first destination, the user unchecked it,
\* a submit was refused, and the user checked the second one
C22_Witness ==
    /\ page = "destination" /\ phase = "ready"
    /\ Truthy(stored, "destination") /\ stored.obj["destination"] = Destinations[1]
    /\ message = "Please select a chip destination."
    /\ checked = {Destinations[2]}

\* the rows of the ledger's sheet, none when the file or the sheet is not there
SheetRows(file) ==
    IF file.file = "workbook" /\ file.hasSheet THEN file.rows ELSE <<>>

SameLetter(a, b) ==
    \/ a = b
    \/ \E n \in 1..Len(UpperCase) : {a, b} = {UpperCase[n], LowerCase[n]}

\* cell is header but for the case of its letters and white space around it
IsHeaderCell(cell, header) ==
    /\ Len(Trim(cell)) = Len(header)
    /\ \A k \in 1..Len(header) : SameLetter(Trim(cell)[k], header[k])

\* the first seven cells of row are the seven headers
HoldsHeaders(row) ==
    /\ Len(row) >= 7
    /\ \A c \in 1..7 : IsHeaderCell(row[c], HEADERS[c])

\* C23: after a /save answered with success the first row of the sheet
\* holds the seven headers in its first seven columns, compared without
\* case and surrounding white space: it is the header row itself when the
\* sheet was new or empty, the row that was there when that row already
\* held the headers (columns past the seventh allowed), and otherwise that
\* row with the headers stamped over its first seven columns.
C23_HeaderRow ==
    [][(Len(replies') > Len(replies) /\ replies'[Len(replies')] = 200) =>
        /\ HoldsHeaders(SheetRows(ledger')[1])
        /\ IF SheetRows(ledger) = <<>>
           THEN SheetRows(ledger')[1] = HEADERS
           ELSE IF HoldsHeaders(SheetRows(ledger)[1])
           THEN SheetRows(ledger')[1] = SheetRows(ledger)[1]
           ELSE /\ SubSeq(SheetRows(ledger')[1], 1, 7) = HEADERS
                /\ SheetRows(ledger')[1] # SheetRows(ledger)[1]]_vars

\* a save succeeded on a sheet whose first row holds the headers in another
\* case, padded and followed by an eighth column: the row is as it was
C23_Witness ==
    /\ \E n \in 1..Len(replies) : replies[n] = 200
    /\ Len(SheetRows(ledger)) >= 3
    /\ SheetRows(ledger)[1] = LooseHeaders

\* C24: whenever the stored record has both chipType and boxNumber,
\* boxNumber is the stored value of the variant chipType names
\* (chipBoxNumber, chipBulkSilo or chipPurchased) and keeps that variant's
\* rule: letters and digits only for box, no digit for bulk, not empty.
C24_BoxNumberOfChipType ==
    (HasKey("chipType") /\ HasKey("boxNumber")) =>
        /\ Record["chipType"] \in ChipTypes
        /\ HasKey(VariantKey(Record["chipType"]))
        /\ Record["boxNumber"] = Record[VariantKey(Record["chipType"])]
        /\ Record["boxNumber"] # <<>>
        /\ Record["chipType"] = BOX => ~NonAlphanumeric(Record["boxNumber"])
        /\ Record["chipType"] = BULK => ~ContainsDigit(Record["boxNumber"])

\* C25: between two clears of the store at most one /save of the record is
\* accepted: once a save has succeeded, no other succeeds before the store
\* is cleared, whatever the user does meanwhile.
C25_OneAcceptedPerRecord == accepted <= 1

\* the data rows written by the requests of the run: those dated by Clock
SavedRows(file) ==
    SelectSeq(DataRows(file), LAMBDA row : row[5] \in {now.date : now \in Clock})

AllSucceeded(statuses) == \A n \in 1..Len(statuses) : statuses[n] = 200

\* C26: with several /save requests received and not yet answered, each is
\* handled in one step that reads the workbook, appends its row and writes
\* the file; as long as every answer so far is a success, the step keeps
\* every row of the ledger and adds its own, and the ledger holds one row
\* for each request answered.
C26_OneRowPerRequest ==
    [][(Len(replies') > Len(replies) /\ AllSucceeded(replies')) =>
        /\ \E i \in 1..Len(requests), now \in Clock :
                /\ requests' = Remove(requests, i)
                /\ DataRows(ledger') = Append(DataRows(ledger), SaveRow(requests[i], now))
        /\ Len(SavedRows(ledger')) = Len(replies')]_vars

\* three requests have been answered, all with success, and none is left:
\* the ledger holds their three rows
C26_Witness ==
    /\ requests = <<>>
    /\ Len(replies) = 3 /\ AllSucceeded(replies)
    /\ Len(SavedRows(ledger)) = 3
====
